---- MODULE Spec2Model ----
(***************************************************************************)
(* A model of vaspy/electronic_structure/dos.py: load_dos, get_pdos,       *)
(* get_element_pdos, write_files and sort_orbitals.                         *)
(*                                                                          *)
(* Energies and densities are integers (fixed-point units).  A Python dict  *)
(* that is only looked up is a TLA+ function; a filter that is None is the  *)
(* empty function, because the code tests every filter by truthiness only   *)
(* (`not elements`, `atoms and ...`, `lm_orbitals and ...`).  A Python list *)
(* that is only tested with `in` is a set.  The element mapping built by    *)
(* get_element_pdos keeps its insertion order: [keys |-> <<..>>, val |-> f].*)
(* A Dos object is represented by its densities, a function from spin       *)
(* channel to a curve; all curves of one calculation share dos.energies.    *)
(***************************************************************************)
EXTENDS Integers, Sequences, FiniteSets, TLC

VARIABLES pc, vr, dos, args, pdos, ret, sites, files, err

vars == <<pc, vr, dos, args, pdos, ret, sites, files, err>>

\* The largest number of sites in a structure.
MaxSites == 3

\* The largest number of points on the energy grid.
MaxE == 2

---------------------------------------------------------------------------
(* The library's enumerations and the data of a calculation.               *)

\* pymatgen's Orbital enumeration, in its declaration order.
Orbital ==
  <<"s", "py", "pz", "px", "dxy", "dyz", "dz2", "dxz", "dx2",
    "f_3", "f_2", "f_1", "f0", "f1", "f2", "f3">>

\* pymatgen's OrbitalType enumeration, in its declaration order.
OrbitalType == <<"s", "p", "d", "f">>

Range(q) == {q[i] : i \in DOMAIN q}

\* orb.name[0]: the first character of an orbital's name.
Name0(orb) ==
  IF orb = "s" THEN "s"
  ELSE IF orb \in {"py", "pz", "px"} THEN "p"
  ELSE IF orb \in {"dxy", "dyz", "dz2", "dxz", "dx2"} THEN "d"
  ELSE "f"

\* The element symbols a structure is built from.
Elements == {"Bi", "S"}

\* Every structure: a non-empty sequence of sites, each site its species.
Structures == UNION {[1..n -> Elements] : n \in 1..MaxSites}

\* The orbitals a calculation projects on: up to the d shell, or up to f.
ShellSets == {{"s", "p", "d"}, {"s", "p", "d", "f"}}

SpinSets == {{"up"}, {"up", "down"}}

OrbIndex(orb) == CHOOSE i \in DOMAIN Orbital : Orbital[i] = orb

\* The parsed density of one site, orbital and spin channel.  With
\* kind = "identical" all sites carry the same curves, with "distinct" the
\* curves of site i are scaled by 4^(i-1).  Every value is a multiple of 4.
SiteDensity(kind, n, i, orb, spin) ==
  LET w == IF kind = "identical" THEN 1 ELSE 4 ^ (i - 1)
      b == IF spin = "up" THEN OrbIndex(orb) ELSE OrbIndex(orb) + Len(Orbital)
  IN  [k \in 1..n |-> 4 * w * (b + 2 * k)]

AddCurve(a, b) == [k \in DOMAIN a |-> a[k] + b[k]]

\* Dos.__add__ / add_densities: channel by channel, point by point.
AddDos(a, b) == [s \in DOMAIN a |-> AddCurve(a[s], b[s])]

RECURSIVE SumDos(_, _, _)
\* functools.reduce(add_densities, ...) over ds[i..Len(ds)], starting at acc.
SumDos(ds, i, acc) ==
  IF i > Len(ds) THEN acc ELSE SumDos(ds, i + 1, AddDos(acc, ds[i]))

\* [x for x in q if x in keep], from position i on: a list comprehension
\* or a loop that appends, keeping the order of q.
RECURSIVE FilterSeq(_, _, _)
FilterSeq(q, keep, i) ==
  IF i > Len(q) THEN <<>>
  ELSE IF q[i] \in keep THEN <<q[i]>> \o FilterSeq(q, keep, i + 1)
  ELSE FilterSeq(q, keep, i + 1)

\* The parsed total density of one spin channel; a multiple of 4 at every
\* point, as the site densities are.
TotalDensity(structure, n, spin) ==
  [k \in 1..n |->
     4 * (10 * Len(structure) + k * k + (IF spin = "up" THEN 0 ELSE 5))]

\* The complete DOS of a calculation as the parser delivers it.
CompleteDos(structure, shells, spins, kind, n) ==
  [structure |-> structure,
   energies  |-> [k \in 1..n |-> 2 * k - 6],
   densities |-> [s \in spins |-> TotalDensity(structure, n, s)],
   pdos      |-> [i \in DOMAIN structure |->
                    [o \in {x \in Range(Orbital) : Name0(x) \in shells} |->
                       [s \in spins |-> SiteDensity(kind, n, i, o, s)]]]]

---------------------------------------------------------------------------
(* get_element_pdos                                                         *)

\* dos.get_element_spd_dos(element).keys(): the orbital types found on the
\* sites of the element, in first-appearance order.
ElementSpdKeys(d, element) ==
  FilterSeq(OrbitalType,
            {Name0(o) : o \in UNION {DOMAIN d.pdos[i] :
                 i \in {j \in DOMAIN d.structure : d.structure[j] = element}}},
            1)

\* dos.get_site_spd_dos(site)[orb]: the site's orbitals of one type, summed.
SiteSpdDos(d, site, orb) ==
  LET os == FilterSeq(Orbital,
                      {o \in DOMAIN d.pdos[site] : Name0(o) = orb}, 1)
  IN  SumDos([j \in DOMAIN os |-> d.pdos[site][os[j]]], 2,
             d.pdos[site][os[1]])

\* dos.get_site_orbital_dos(site, orb)
SiteOrbitalDos(d, site, orb) == d.pdos[site][orb]

\* The spd list of get_element_pdos.
SpdList(d, element, lm_orbitals, orbitals) ==
  FilterSeq(ElementSpdKeys(d, element),
            {t \in Range(OrbitalType) :
                /\ (orbitals # {} /\ t \in orbitals) \/ orbitals = {}
                /\ (lm_orbitals # {} /\ t \notin lm_orbitals)
                      \/ lm_orbitals = {}},
            1)

\* LmList with the whole name compared instead of its first character.
LmList_Mut(lm_orbitals) ==
  FilterSeq(Orbital,
            {o \in Range(Orbital) : lm_orbitals # {} /\ o \in lm_orbitals},
            1)

\* The lm list of get_element_pdos.
LmList(lm_orbitals) ==
  FilterSeq(Orbital,
            {o \in Range(Orbital) :
                lm_orbitals # {} /\ Name0(o) \in lm_orbitals},
            1)

EmptyDict == [keys |-> <<>>, val |-> <<>>]

\* Accumulate with the curve assigned instead of added.
Accumulate_Mut(el_dos, name, p) ==
  IF name \in Range(el_dos.keys)
    THEN [keys |-> el_dos.keys, val |-> [el_dos.val EXCEPT ![name] = p]]
    ELSE [keys |-> Append(el_dos.keys, name),
          val  |-> (name :> p) @@ el_dos.val]

\* el_dos[name] = el_dos[name] + pdos if name in el_dos else pdos
Accumulate(el_dos, name, p) ==
  IF name \in Range(el_dos.keys)
    THEN [keys |-> el_dos.keys,
          val  |-> [el_dos.val EXCEPT ![name] = AddDos(@, p)]]
    ELSE [keys |-> Append(el_dos.keys, name),
          val  |-> (name :> p) @@ el_dos.val]

RECURSIVE SpdLoop(_, _, _, _, _)
SpdLoop(d, site, spd, i, el_dos) ==
  IF i > Len(spd) THEN el_dos
  ELSE SpdLoop(d, site, spd, i + 1,
               Accumulate(el_dos, spd[i], SiteSpdDos(d, site, spd[i])))

RECURSIVE LmLoop(_, _, _, _, _)
LmLoop(d, site, lm, i, el_dos) ==
  IF i > Len(lm) THEN el_dos
  ELSE LmLoop(d, site, lm, i + 1,
              Accumulate(el_dos, lm[i], SiteOrbitalDos(d, site, lm[i])))

RECURSIVE SiteLoop(_, _, _, _, _, _)
SiteLoop(d, ss, spd, lm, i, el_dos) ==
  IF i > Len(ss) THEN el_dos
  ELSE SiteLoop(d, ss, spd, lm, i + 1,
                LmLoop(d, ss[i], lm, 1, SpdLoop(d, ss[i], spd, 1, el_dos)))

\* get_element_pdos raises KeyError when a selected site has no data for an
\* orbital of the lm list (dos.get_site_orbital_dos looks it up).
GetElementPdosRaises(d, ss, lm_orbitals) ==
  \E i \in DOMAIN ss :
     \E o \in Range(LmList(lm_orbitals)) : o \notin DOMAIN d.pdos[ss[i]]

GetElementPdos(d, element, ss, lm_orbitals, orbitals) ==
  SiteLoop(d, ss, SpdList(d, element, lm_orbitals, orbitals),
           LmList(lm_orbitals), 1, EmptyDict)

---------------------------------------------------------------------------
(* get_pdos                                                                 *)

\* dos.structure.symbol_set
SymbolSet(d) == Range(d.structure)

\* `if not elements`: every symbol of the structure, each mapped to None.
DefaultElements(d, elements) ==
  IF DOMAIN elements = {} THEN [el \in SymbolSet(d) |-> {}] ELSE elements

\* PdosKeys without the skip of the elements the atoms filter omits.
PdosKeys_Mut(d, atoms, elements) == DOMAIN DefaultElements(d, elements)

\* The elements the loop does not skip (`if atoms and el not in atoms`).
PdosKeys(d, atoms, elements) ==
  {el \in DOMAIN DefaultElements(d, elements) :
      ~(DOMAIN atoms # {} /\ el \notin DOMAIN atoms)}

\* element_sites: the sites of the element, in structure order.
RECURSIVE ElementSites(_, _, _)
ElementSites(d, el, j) ==
  IF j > Len(d.structure) THEN <<>>
  ELSE IF d.structure[j] = el THEN <<j>> \o ElementSites(d, el, j + 1)
  ELSE ElementSites(d, el, j + 1)

\* SelectSites with the index of the site in the whole structure.
RECURSIVE SelectSites_Mut(_, _, _, _)
SelectSites_Mut(element_sites, atoms, el, i) ==
  IF i > Len(element_sites) THEN <<>>
  ELSE IF DOMAIN atoms = {}
            \/ (el \in DOMAIN atoms /\ (element_sites[i] - 1) \in atoms[el])
    THEN <<element_sites[i]>>
           \o SelectSites_Mut(element_sites, atoms, el, i + 1)
  ELSE SelectSites_Mut(element_sites, atoms, el, i + 1)

\* sites: [site for i, site in enumerate(element_sites)
\*         if not atoms or (el in atoms and i in atoms[el])]
\* i is the one-based position here, i - 1 the index enumerate yields.
RECURSIVE SelectSites(_, _, _, _)
SelectSites(element_sites, atoms, el, i) ==
  IF i > Len(element_sites) THEN <<>>
  ELSE IF DOMAIN atoms = {} \/ (el \in DOMAIN atoms /\ (i - 1) \in atoms[el])
    THEN <<element_sites[i]>> \o SelectSites(element_sites, atoms, el, i + 1)
  ELSE SelectSites(element_sites, atoms, el, i + 1)

PdosSites(d, atoms, el) == SelectSites(ElementSites(d, el, 1), atoms, el, 1)

\* lm_orbitals[el] if (lm_orbitals and el in lm_orbitals) else None
PdosLm(lm_orbitals, el) ==
  IF el \in DOMAIN lm_orbitals THEN lm_orbitals[el] ELSE {}

GetPdosRaises(d, lm_orbitals, atoms, elements) ==
  \E el \in PdosKeys(d, atoms, elements) :
     GetElementPdosRaises(d, PdosSites(d, atoms, el), PdosLm(lm_orbitals, el))

GetPdos(d, lm_orbitals, atoms, elements) ==
  [el \in PdosKeys(d, atoms, elements) |->
      GetElementPdos(d, el, PdosSites(d, atoms, el), PdosLm(lm_orbitals, el),
                     DefaultElements(d, elements)[el])]

---------------------------------------------------------------------------
(* The arguments the functions are called with.                             *)

\* Every mapping from some of the elements to a value of vals.
Mappings(vals) == UNION {[D -> vals] : D \in SUBSET Elements}

\* elements: {element: [orbitals]}
ElementFilters == Mappings({{}, {"s", "px"}})

\* lm_orbitals: {element: [shells]}
LmFilters == Mappings({{"p"}}) \cup {("Bi" :> {"f"})}

\* atoms: {element: [indices]}
AtomFilters == Mappings({{}, {0, 2}}) \cup {("Bi" :> {1})}

\* The lm_orbitals and orbitals lists get_element_pdos is called with.
LmLists == {{}, {"s"}, {"p"}, {"p", "d"}, {"f"}}
OrbitalLists == {{}, {"s"}, {"p"}, {"s", "px"}}

NoCall == [fn |-> "none"]
NoVasprun == [filename |-> "none"]

\* Every sequence of sites of one element, in structure order.
RECURSIVE SubSeq2(_, _, _)
SubSeq2(q, keep, i) ==
  IF i > Len(q) THEN <<>>
  ELSE IF i \in keep THEN <<q[i]>> \o SubSeq2(q, keep, i + 1)
  ELSE SubSeq2(q, keep, i + 1)

SiteLists(d, el) ==
  {SubSeq2(ElementSites(d, el, 1), keep, 1) :
      keep \in SUBSET (1..Len(ElementSites(d, el, 1)))}

---------------------------------------------------------------------------
(* Calling get_pdos and get_element_pdos on a complete DOS.                 *)

InitPdos ==
  /\ pc = "dos"
  /\ vr = NoVasprun
  /\ dos \in {CompleteDos(st, sh, sp, kind, MaxE) :
                st \in Structures, sh \in ShellSets, sp \in SpinSets,
                kind \in {"identical", "distinct"}}
  /\ args = NoCall
  /\ pdos = <<>>
  /\ ret = EmptyDict
  /\ sites = <<>>
  /\ files = <<>>
  /\ err = "none"

CallGetPdos ==
  /\ pc = "dos"
  /\ \E elements \in ElementFilters, lm_orbitals \in LmFilters,
        atoms \in AtomFilters :
       /\ args' = [fn |-> "get_pdos", lm_orbitals |-> lm_orbitals,
                   atoms |-> atoms, elements |-> elements]
       /\ sites' = [el \in PdosKeys(dos, atoms, elements) |->
                      PdosSites(dos, atoms, el)]
       /\ IF GetPdosRaises(dos, lm_orbitals, atoms, elements)
            THEN /\ err' = "KeyError"
                 /\ pdos' = pdos
            ELSE /\ err' = err
                 /\ pdos' = GetPdos(dos, lm_orbitals, atoms, elements)
  /\ pc' = "returned"
  /\ UNCHANGED <<vr, dos, ret, files>>

CallGetElementPdos ==
  /\ pc = "dos"
  /\ \E element \in Elements, lm_orbitals \in LmLists,
        orbitals \in OrbitalLists :
       \E ss \in SiteLists(dos, element) :
         /\ args' = [fn |-> "get_element_pdos", element |-> element,
                     sites |-> ss, lm_orbitals |-> lm_orbitals,
                     orbitals |-> orbitals]
         /\ IF GetElementPdosRaises(dos, ss, lm_orbitals)
              THEN /\ err' = "KeyError"
                   /\ ret' = ret
              ELSE /\ err' = err
                   /\ ret' = GetElementPdos(dos, element, ss, lm_orbitals,
                                            orbitals)
  /\ pc' = "returned"
  /\ UNCHANGED <<vr, dos, pdos, sites, files>>

NextPdos == CallGetPdos \/ CallGetElementPdos

SpecPdos == InitPdos /\ [][NextPdos]_vars

---------------------------------------------------------------------------
(* load_dos                                                                 *)

\* ZeroPoint with the Fermi energy whatever the band structure.
ZeroPoint_Mut(v) == v.efermi

\* zero_point: vr.efermi for a metal, band.get_vbm()['energy'] otherwise.
ZeroPoint(v) == IF v.is_metal THEN v.efermi ELSE v.vbm

\* The ISMEAR codes for which SIGMA is subtracted.
SmearingCodes == {-1, 0, 1}

\* dos.energies -= x
ShiftEnergies(energies, x) == [k \in DOMAIN energies |-> energies[k] - x]

\* The energies after lines 68 to 70 (both parameters present when read).
AlignedEnergies(v) ==
  LET e == ShiftEnergies(v.complete_dos.energies, ZeroPoint(v))
  IN  IF v.parameters["ISMEAR"] \in SmearingCodes
        THEN ShiftEnergies(e, v.parameters["SIGMA"])
        ELSE e

\* The library's Gaussian filter of one curve, stood in for by the kernel
\* (1, 2, 1) / 4 with the edge values repeated; it keeps the length of the
\* curve and, on the multiples of 4 the data consist of, divides exactly.
Smear(c, gaussian) ==
  [k \in DOMAIN c |->
     (c[IF k = 1 THEN 1 ELSE k - 1] + 2 * c[k]
        + c[IF k = Len(c) THEN k ELSE k + 1]) \div 4]

SmearDos(p, gaussian) == [s \in DOMAIN p |-> Smear(p[s], gaussian)]

\* Lines 72 to 77: the total densities and every site/orbital curve smeared.
Smeared(d, gaussian) ==
  IF gaussian # 0
    THEN [d EXCEPT !.densities = SmearDos(@, gaussian),
                   !.pdos = [site \in DOMAIN @ |->
                               [o \in DOMAIN @[site] |->
                                  SmearDos(@[site][o], gaussian)]]]
    ELSE d

\* del x[Spin.down]
DelDown(p) == [s \in DOMAIN p \ {"down"} |-> p[s]]

\* StripDown that leaves the site/orbital curves as they are.
StripDown_Mut(d) == [d EXCEPT !.densities = DelDown(@)]

\* Lines 83 to 86: the down channel deleted from the total and from every
\* site/orbital curve.
StripDown(d) ==
  [d EXCEPT !.densities = DelDown(@),
            !.pdos = [site \in DOMAIN @ |->
                        [o \in DOMAIN @[site] |-> DelDown(@[site][o])]]]

\* The exception load_dos raises before it calls get_pdos, or "none".
\* `logging` is never imported, so any log call raises NameError; a missing
\* key of vr.parameters raises KeyError, as does deleting an absent channel.
LoadRaises(v, a) ==
  IF a.log THEN "NameError"
  ELSE IF "ISMEAR" \notin DOMAIN v.parameters THEN "KeyError"
  ELSE IF v.parameters["ISMEAR"] \in SmearingCodes
            /\ "SIGMA" \notin DOMAIN v.parameters THEN "KeyError"
  ELSE IF "LSORBIT" \notin DOMAIN v.parameters THEN "KeyError"
  ELSE IF v.parameters["LSORBIT"]
            /\ "down" \notin DOMAIN v.complete_dos.densities THEN "KeyError"
  ELSE "none"

\* The dos object when get_pdos is called (no exception before).
LoadedDos(v, a) ==
  LET d1 == [v.complete_dos EXCEPT !.energies = AlignedEnergies(v)]
      d2 == Smeared(d1, a.gaussian)
  IN  IF v.parameters["LSORBIT"] THEN StripDown(d2) ELSE d2

\* The calculation parameters a run may carry.
Parameters ==
  {p1 @@ p2 @@ p3 :
     p1 \in {<<>>} \cup {("ISMEAR" :> c) : c \in {-5, -1, 0, 1, 2}},
     p2 \in {<<>>, ("SIGMA" :> 2)},
     p3 \in {<<>>} \cup {("LSORBIT" :> b) : b \in BOOLEAN}}

\* The structures of the runs load_dos is given.
LoadStructures == {<<"Bi">>, <<"S", "Bi">>, <<"Bi", "S", "Bi">>}

\* Vasprun(filename): what the parser delivers.
Vaspruns ==
  {[is_metal |-> m, efermi |-> 3, vbm |-> 1, parameters |-> p,
    complete_dos |-> CompleteDos(st, {"s", "p", "d"}, sp, "distinct", MaxE)] :
     m \in BOOLEAN, p \in Parameters, st \in LoadStructures, sp \in SpinSets}

\* The filters load_dos passes on to get_pdos.
LoadFilters ==
  {[elements |-> <<>>, lm_orbitals |-> <<>>, atoms |-> <<>>],
   [elements |-> ("Bi" :> {"s", "px"}), lm_orbitals |-> ("Bi" :> {"p"}),
    atoms |-> ("Bi" :> {0, 2})],
   [elements |-> ("S" :> {}), lm_orbitals |-> <<>>, atoms |-> <<>>]}

Init ==
  /\ pc = "parsed"
  /\ vr \in Vaspruns
  /\ dos = vr.complete_dos
  /\ args = NoCall
  /\ pdos = <<>>
  /\ ret = EmptyDict
  /\ sites = <<>>
  /\ files = <<>>
  /\ err = "none"

CallLoadDos ==
  /\ pc = "parsed"
  /\ \E f \in LoadFilters, gaussian \in {0, 1}, total_only \in BOOLEAN,
        log \in BOOLEAN :
       LET a == [fn |-> "load_dos", elements |-> f.elements,
                 lm_orbitals |-> f.lm_orbitals, atoms |-> f.atoms,
                 gaussian |-> gaussian, total_only |-> total_only,
                 log |-> log]
       IN  /\ args' = a
           /\ IF LoadRaises(vr, a) # "none"
                THEN /\ err' = LoadRaises(vr, a)
                     /\ pc' = "raised"
                     /\ UNCHANGED <<dos, pdos, sites>>
                ELSE LET d == LoadedDos(vr, a)
                     IN  IF ~total_only
                              /\ GetPdosRaises(d, a.lm_orbitals, a.atoms,
                                               a.elements)
                           THEN /\ err' = "KeyError"
                                /\ pc' = "raised"
                                /\ UNCHANGED <<dos, pdos, sites>>
                           ELSE /\ err' = err
                                /\ pc' = "loaded"
                                /\ dos' = d
                                /\ pdos' = IF total_only THEN <<>>
                                           ELSE GetPdos(d, a.lm_orbitals,
                                                        a.atoms, a.elements)
                                /\ sites' = IF total_only THEN <<>>
                                            ELSE [el \in PdosKeys(d, a.atoms,
                                                               a.elements) |->
                                                    PdosSites(d, a.atoms, el)]
  /\ UNCHANGED <<vr, ret, files>>

---------------------------------------------------------------------------
(* write_files and sort_orbitals                                            *)

sorted_orbitals ==
  <<"s", "p", "py", "pz", "px", "d", "dxy", "dyz", "dz2", "dxz", "dx2",
    "f", "f_3", "f_2", "f_1", "f_0", "f1", "f2", "f3">>

\* SortOrbitals that keeps the order of the mapping's keys.
SortOrbitals_Mut(element_pdos) ==
  FilterSeq(element_pdos.keys, Range(sorted_orbitals), 1)

\* sort_orbitals: the keys of the mapping that occur in sorted_orbitals, in
\* the order of sorted_orbitals.
SortOrbitals(element_pdos) ==
  FilterSeq(sorted_orbitals, Range(element_pdos.keys), 1)

\* Sdata with the one-channel layout whatever the number of channels.
Sdata_Mut(d) == <<[spin |-> "up", sign |-> 1, label |-> ""]>>

\* sdata: [spin, sign, label] per spin channel of the total DOS.
Sdata(d) ==
  IF Cardinality(DOMAIN d.densities) = 1
    THEN <<[spin |-> "up", sign |-> 1, label |-> ""]>>
    ELSE <<[spin |-> "up", sign |-> 1, label |-> "(up)"],
           [spin |-> "down", sign |-> -1, label |-> "(down)"]>>

\* '{}{}'.format(orb, label): a header token, kept as the pair it joins.
Token(orb, label) == <<orb, label>>

\* np.stack(columns, axis=1): row k holds the k-th value of every column.
Stack(columns, n) ==
  [k \in 1..n |-> [c \in DOMAIN columns |-> columns[c][k]]]

Scale(c, sign) == [k \in DOMAIN c |-> c[k] * sign]

\* The file name: directory, prefix and stem ("total" or the element); an
\* empty prefix or directory is the absent one.
FileName(prefix, directory, stem) == <<directory, prefix, stem>>

\* The total-DOS file: header and data.
TotalFile(d) ==
  LET sd == Sdata(d)
  IN  [header |-> <<Token("energy", "")>>
                    \o [i \in DOMAIN sd |-> Token("dos", sd[i].label)],
       data   |-> Stack(<<d.energies>>
                          \o [i \in DOMAIN sd |->
                                Scale(d.densities[sd[i].spin], sd[i].sign)],
                        Len(d.energies))]

\* The file of one element: a column per sorted orbital and spin channel.
ElementFile(d, el_pdos) ==
  LET sd   == Sdata(d)
      orbs == SortOrbitals(el_pdos)
      cols == [j \in 1..(Len(orbs) * Len(sd)) |->
                 [orb |-> orbs[((j - 1) \div Len(sd)) + 1],
                  sd  |-> sd[((j - 1) % Len(sd)) + 1]]]
  IN  [header |-> <<Token("energy", "")>>
                    \o [j \in DOMAIN cols |->
                          Token(cols[j].orb, cols[j].sd.label)],
       data   |-> Stack(<<d.energies>>
                          \o [j \in DOMAIN cols |->
                                Scale(el_pdos.val[cols[j].orb][cols[j].sd.spin],
                                      cols[j].sd.sign)],
                        Len(d.energies))]

WriteFiles(d, p, prefix, directory) ==
  [f \in {FileName(prefix, directory, stem) : stem \in {"total"} \cup DOMAIN p}
     |-> IF f[3] = "total" THEN TotalFile(d) ELSE ElementFile(d, p[f[3]])]

CallWriteFiles ==
  /\ pc \in {"loaded", "pdos"}
  /\ \E prefix \in {"", "run"}, directory \in {"", "out"} :
       /\ args' = [fn |-> "write_files", prefix |-> prefix,
                   directory |-> directory]
       /\ files' = WriteFiles(dos, pdos, prefix, directory)
  /\ pc' = "written"
  /\ UNCHANGED <<vr, dos, pdos, ret, sites, err>>

Next == CallLoadDos \/ CallWriteFiles

Spec == Init /\ [][Next]_vars

\* The largest number of keys of an element mapping handed to the writer.
MaxKeys == 3

\* The labels such a mapping may hold; f0 is not among sorted_orbitals.
Labels == <<"px", "s", "f0", "d", "pz">>

\* Every sequence of at most n distinct labels.
KeyOrders(n) ==
  {q \in UNION {[1..m -> Range(Labels)] : m \in 0..n} :
      \A i, j \in DOMAIN q : i # j => q[i] # q[j]}

\* An element mapping with the given key order over the channels of d.
MappingOf(keys, d) ==
  [keys |-> keys,
   val  |-> [l \in Range(keys) |->
               [s \in DOMAIN d.densities |->
                  [k \in DOMAIN d.energies |->
                     4 * ((CHOOSE i \in DOMAIN Labels : Labels[i] = l) + k)]]]]

InitWrite ==
  /\ pc = "pdos"
  /\ vr = NoVasprun
  /\ dos \in {CompleteDos(<<"Bi", "S">>, {"s", "p", "d"}, sp, "distinct", n) :
                sp \in SpinSets, n \in 1..MaxE}
  /\ args = NoCall
  /\ pdos \in {[el \in D |-> MappingOf(keys, dos)] :
                 D \in {{"Bi"}, {"Bi", "S"}}, keys \in KeyOrders(MaxKeys)}
  /\ ret = EmptyDict
  /\ sites = <<>>
  /\ files = <<>>
  /\ err = "none"

CallSortOrbitals ==
  /\ pc = "pdos"
  /\ \E el \in DOMAIN pdos :
       /\ args' = [fn |-> "sort_orbitals", element_pdos |-> pdos[el]]
       /\ ret' = SortOrbitals(pdos[el])
  /\ pc' = "returned"
  /\ UNCHANGED <<vr, dos, pdos, sites, files, err>>

NextWrite == CallSortOrbitals \/ CallWriteFiles

SpecWrite == InitWrite /\ [][NextWrite]_vars

---------------------------------------------------------------------------
(* What the claims are stated with.                                         *)

RECURSIVE SetSum(_, _)
\* The sum of f over the finite set S.
SetSum(f, S) ==
  IF S = {} THEN 0
  ELSE LET x == CHOOSE y \in S : TRUE IN f[x] + SetSum(f, S \ {x})

\* The shell a label belongs to: the label itself for s, p, d, f.
ShellOf(label) ==
  IF label \in Range(OrbitalType) THEN label ELSE Name0(label)

\* The m-sublevels of a shell.
Sublevels(X) == {o \in Range(Orbital) : Name0(o) = X}

\* The orbitals of a site that a label stands for.
LabelOrbitals(d, site, label) ==
  IF label \in Range(OrbitalType)
    THEN {o \in DOMAIN d.pdos[site] : Name0(o) = label}
    ELSE {label}

\* The density a label has at one point when summed over the sites of S.
SumOverSites(d, S, label, spin, k) ==
  SetSum([site \in S |->
            SetSum([o \in LabelOrbitals(d, site, label) |->
                      d.pdos[site][o][spin][k]],
                   LabelOrbitals(d, site, label))],
         S)

\* Every curve of the mapping is the sum over the sites of S.
IsSumOver(el_dos, d, S) ==
  \A label \in Range(el_dos.keys) :
     /\ DOMAIN el_dos.val[label] = DOMAIN d.densities
     /\ \A spin \in DOMAIN d.densities : \A k \in DOMAIN d.energies :
          el_dos.val[label][spin][k] = SumOverSites(d, S, label, spin, k)

\* The sites of an element, and a site's zero-based index among them.
SitesOf(d, el) == {j \in DOMAIN d.structure : d.structure[j] = el}

IndexInElement(d, j) ==
  Cardinality({k \in 1..(j - 1) : d.structure[k] = d.structure[j]})

ReturnedFrom(fn) == pc = "returned" /\ args.fn = fn /\ err = "none"

\* C1: in get_pdos, an element that the atoms filter maps to an empty list
\* gets the same result as with no atoms filter at all (all its sites).
C1_EmptyAtomListSelectsAll ==
  ReturnedFrom("get_pdos") =>
    \A el \in DOMAIN args.atoms :
       (args.atoms[el] = {} /\ el \in DOMAIN pdos) =>
          pdos[el] = GetPdos(dos, args.lm_orbitals, <<>>, args.elements)[el]

\* C3 as stated: with at least one selected site, every shell X of
\* lm_orbitals contributes its m-sublevels and no other label of shell X,
\* and the plain label X is absent.
C3_LmShellAsStated ==
  (ReturnedFrom("get_element_pdos") /\ Len(args.sites) >= 1) =>
    \A X \in args.lm_orbitals :
       /\ {l \in Range(ret.keys) : ShellOf(l) = X} = Sublevels(X)
       /\ X \notin Range(ret.keys)

\* C3 amended: with at least one selected site, when get_element_pdos
\* returns, every shell X of lm_orbitals contributes exactly its
\* m-sublevels, whatever the orbitals filter; the plain label X is absent
\* for p, d and f, while the only sublevel of s is itself labelled s.
C3_LmShellComplete ==
  (ReturnedFrom("get_element_pdos") /\ Len(args.sites) >= 1) =>
    \A X \in args.lm_orbitals :
       /\ {l \in Range(ret.keys) : ShellOf(l) = X} = Sublevels(X)
       /\ X # "s" => X \notin Range(ret.keys)

C3_Witness ==
  /\ ReturnedFrom("get_element_pdos")
  /\ Len(args.sites) >= 1
  /\ args.lm_orbitals = {"p"}
  /\ args.orbitals = {"s", "px"}
  /\ Range(ret.keys) = {"s", "py", "pz", "px"}

\* C4: every curve get_element_pdos returns is the point-wise sum of the
\* selected sites' curves for that label, each site once; over N sites with
\* identical curves it is N times the curve of one site.
C4_AggregateIsSum ==
  ReturnedFrom("get_element_pdos") =>
    /\ IsSumOver(ret, dos, Range(args.sites))
    /\ (\A i, j \in Range(args.sites) : dos.pdos[i] = dos.pdos[j]) =>
         \A label \in Range(ret.keys) : \A spin \in DOMAIN dos.densities :
            \A k \in DOMAIN dos.energies :
               ret.val[label][spin][k] =
                 Len(args.sites)
                   * SumOverSites(dos, {args.sites[1]}, label, spin, k)

C4_Witness ==
  /\ ReturnedFrom("get_element_pdos")
  /\ Len(args.sites) = 3
  /\ \A i, j \in Range(args.sites) : dos.pdos[i] = dos.pdos[j]
  /\ "p" \in Range(ret.keys)
  /\ ret.val["p"]["up"][1] = 3 * SiteSpdDos(dos, 1, "p")["up"][1]
  /\ ret.val["p"]["up"][1] > 0

\* C5: with a non-empty atoms list for an element, get_pdos sums exactly
\* the sites of the element whose zero-based index among the element's own
\* sites is in the list; an index no site has selects nothing.
C5_PerElementIndices ==
  (pc = "returned" /\ args.fn = "get_pdos") =>
    \A el \in DOMAIN sites :
       (el \in DOMAIN args.atoms /\ args.atoms[el] # {}) =>
          /\ Range(sites[el]) =
               {j \in SitesOf(dos, el) :
                   IndexInElement(dos, j) \in args.atoms[el]}
          /\ \A a, b \in DOMAIN sites[el] :
                a < b => sites[el][a] < sites[el][b]
          /\ err = "none" =>
               IsSumOver(pdos[el], dos,
                         {j \in SitesOf(dos, el) :
                             IndexInElement(dos, j) \in args.atoms[el]})

C5_Witness ==
  /\ ReturnedFrom("get_pdos")
  /\ dos.structure = <<"S", "Bi", "Bi">>
  /\ "Bi" \in DOMAIN args.atoms
  /\ args.atoms["Bi"] = {0, 2}
  /\ "Bi" \in DOMAIN sites
  /\ sites["Bi"] = <<2>>
  /\ pdos["Bi"].keys # <<>>

\* C10: get_pdos returns one entry per element of the element filter (per
\* symbol of the structure without an element filter), except the elements
\* an atoms filter does not name; without any filter every element of the
\* structure has all its orbital types summed over all its sites; an element
\* without a site in the structure gets an empty entry and no error.
C10_PdosKeys ==
  (pc = "returned" /\ args.fn = "get_pdos") =>
    /\ DOMAIN sites =
         (IF args.elements = <<>> THEN Range(dos.structure)
                                  ELSE DOMAIN args.elements)
           \ (IF args.atoms = <<>> THEN {} ELSE Elements \ DOMAIN args.atoms)
    /\ err = "none" =>
         /\ DOMAIN pdos = DOMAIN sites
         /\ \A el \in DOMAIN pdos :
              SitesOf(dos, el) = {} => pdos[el] = EmptyDict
         /\ (args.elements = <<>> /\ args.atoms = <<>>
               /\ args.lm_orbitals = <<>>) =>
              \A el \in Range(dos.structure) :
                 /\ el \in DOMAIN pdos
                 /\ Range(pdos[el].keys) =
                      {Name0(o) : o \in UNION {DOMAIN dos.pdos[j] :
                                                 j \in SitesOf(dos, el)}}
                 /\ IsSumOver(pdos[el], dos, SitesOf(dos, el))
    /\ (\A el \in DOMAIN sites : SitesOf(dos, el) = {} \/ el \notin
            DOMAIN args.lm_orbitals) => err = "none"

C10_Witness ==
  /\ ReturnedFrom("get_pdos")
  /\ dos.structure = <<"Bi", "Bi">>
  /\ DOMAIN args.elements = {"Bi", "S"}
  /\ DOMAIN args.atoms = {"S"}
  /\ DOMAIN pdos = {"S"}
  /\ pdos["S"] = EmptyDict

\* C2: a calculation parameter missing from vr.parameters never makes
\* load_dos fail: it still returns (dos, pdos).
C2_AbsentParameterNoError ==
  (args.fn = "load_dos" /\ ~args.log
     /\ DOMAIN vr.parameters # {"ISMEAR", "SIGMA", "LSORBIT"}
     /\ ("LSORBIT" \in DOMAIN vr.parameters /\ vr.parameters["LSORBIT"]
           => "down" \in DOMAIN vr.complete_dos.densities)) =>
    (pc = "loaded" /\ err = "none")

\* C8: after load_dos every energy is the parsed energy minus the zero
\* point (the Fermi energy of a metal, the valence-band maximum otherwise),
\* and minus SIGMA exactly when ISMEAR is -1, 0 or 1.
C8_EnergyAlignment ==
  pc \in {"loaded", "written"} =>
    \A k \in DOMAIN vr.complete_dos.energies :
       dos.energies[k] =
         vr.complete_dos.energies[k]
           - (IF vr.is_metal THEN vr.efermi ELSE vr.vbm)
           - (IF vr.parameters["ISMEAR"] \in {-1, 0, 1}
                THEN vr.parameters["SIGMA"] ELSE 0)

C8_Witness ==
  /\ pc = "loaded"
  /\ ~vr.is_metal
  /\ vr.parameters["ISMEAR"] = -1
  /\ vr.complete_dos.energies = <<-4, -2>>
  /\ dos.energies = <<-7, -5>>

\* Every channel of the loaded DOS is "up" alone, in the total curve, in
\* the site/orbital curves and in the curves get_pdos aggregated from them.
OnlyUp ==
  /\ DOMAIN dos.densities = {"up"}
  /\ \A site \in DOMAIN dos.pdos : \A o \in DOMAIN dos.pdos[site] :
        DOMAIN dos.pdos[site][o] = {"up"}
  /\ \A el \in DOMAIN pdos :
        /\ \A l \in Range(pdos[el].keys) : DOMAIN pdos[el].val[l] = {"up"}
        /\ IsSumOver(pdos[el], dos, Range(sites[el]))

SpinOrbitLoaded ==
  /\ pc = "loaded"
  /\ vr.parameters["LSORBIT"]
  /\ DOMAIN vr.complete_dos.densities = {"up", "down"}

\* C9 as stated: for a spin-orbit run parsed with two channels, load_dos
\* returns curves with the up channel alone, holding the parsed up values.
C9_SpinOrbitAsStated ==
  SpinOrbitLoaded =>
    /\ OnlyUp
    /\ dos.densities["up"] = vr.complete_dos.densities["up"]
    /\ \A site \in DOMAIN dos.pdos : \A o \in DOMAIN dos.pdos[site] :
          dos.pdos[site][o]["up"] = vr.complete_dos.pdos[site][o]["up"]

\* C9 amended: for a spin-orbit run parsed with two channels, load_dos
\* returns curves with the up channel alone; its values are the parsed up
\* values when no Gaussian broadening is asked for, and the broadened up
\* values otherwise; get_pdos aggregates the stripped curves.
C9_SpinOrbitStripped ==
  SpinOrbitLoaded =>
    /\ OnlyUp
    /\ dos.densities["up"] =
         (IF args.gaussian = 0 THEN vr.complete_dos.densities["up"]
          ELSE Smear(vr.complete_dos.densities["up"], args.gaussian))
    /\ \A site \in DOMAIN dos.pdos : \A o \in DOMAIN dos.pdos[site] :
          dos.pdos[site][o]["up"] =
            (IF args.gaussian = 0 THEN vr.complete_dos.pdos[site][o]["up"]
             ELSE Smear(vr.complete_dos.pdos[site][o]["up"], args.gaussian))

C9_Witness ==
  /\ SpinOrbitLoaded
  /\ args.gaussian = 0
  /\ ~args.total_only
  /\ "Bi" \in DOMAIN pdos
  /\ "px" \in Range(pdos["Bi"].keys)
  /\ DOMAIN pdos["Bi"].val["px"] = {"up"}
  /\ DOMAIN dos.pdos[1]["px"] = {"up"}
  /\ dos.pdos[1]["px"]["up"] = vr.complete_dos.pdos[1]["px"]["up"]

\* The sequence the orbitals are written in, as C6 gives it.
C6_Sequence ==
  <<"s", "p", "py", "pz", "px", "d", "dxy", "dyz", "dz2", "dxz", "dx2",
    "f", "f_3", "f_2", "f_1", "f_0", "f1", "f2", "f3">>

C6_Position(l) == CHOOSE i \in DOMAIN C6_Sequence : C6_Sequence[i] = l

\* C6: sort_orbitals returns exactly the keys of the mapping that occur in
\* the fixed sequence, each once and in the order of the sequence, whatever
\* the order of the keys; write_files writes the orbital columns of an
\* element's file in that order.
C6_CanonicalOrder ==
  /\ (pc = "returned" /\ args.fn = "sort_orbitals") =>
       /\ Range(ret) = Range(args.element_pdos.keys) \cap Range(C6_Sequence)
       /\ \A a, b \in DOMAIN ret :
             a < b => C6_Position(ret[a]) < C6_Position(ret[b])
  /\ pc = "written" =>
       \A el \in DOMAIN pdos :
          LET h    == files[FileName(args.prefix, args.directory, el)].header
              S    == Cardinality(DOMAIN dos.densities)
              keep == Range(pdos[el].keys) \cap Range(C6_Sequence)
          IN  /\ Len(h) = 1 + S * Cardinality(keep)
              /\ h[1] = <<"energy", "">>
              /\ {h[j][1] : j \in 2..Len(h)} = keep
              /\ \A l \in keep :
                    Cardinality({j \in 2..Len(h) : h[j][1] = l}) = S
              /\ \A a, b \in 2..Len(h) :
                    a < b => C6_Position(h[a][1]) <= C6_Position(h[b][1])

C6_Witness ==
  /\ pc = "returned"
  /\ args.fn = "sort_orbitals"
  /\ args.element_pdos.keys = <<"px", "f0", "s">>
  /\ ret = <<"s", "px">>

\* C7: the total-DOS file write_files produces has one row per energy point
\* and 1 + S columns for S spin channels, and its header has 1 + S tokens:
\* energy and dos, or energy, dos(up) and dos(down).
C7_TotalFileShape ==
  pc = "written" =>
    LET f == files[FileName(args.prefix, args.directory, "total")]
        S == Cardinality(DOMAIN dos.densities)
    IN  /\ Len(f.data) = Len(dos.energies)
        /\ \A k \in DOMAIN f.data : Len(f.data[k]) = 1 + S
        /\ Len(f.header) = 1 + S
        /\ S = 1 => f.header = << <<"energy", "">>, <<"dos", "">> >>
        /\ S = 2 => f.header = << <<"energy", "">>, <<"dos", "(up)">>,
                                  <<"dos", "(down)">> >>

C7_Witness ==
  /\ pc = "written"
  /\ DOMAIN dos.densities = {"up", "down"}
  /\ Len(dos.energies) = 2
  /\ Len(files[FileName(args.prefix, args.directory, "total")].data) = 2
  /\ Len(files[FileName(args.prefix, args.directory, "total")].data[1]) = 3

====
